---- MODULE Spec2Model ----
(***************************************************************************)
(* quickcdc: the content-defined chunker of src/src/lib.rs.                *)
(*                                                                         *)
(* A Chunker borrows a byte slice and is pulled (Iterator::next) for one   *)
(* chunk at a time.  The model keeps the slice as a sequence of bytes      *)
(* (offset o of the code is element o + 1 here), the Chunker struct as a   *)
(* record, and the two build switches the code's behaviour depends on:     *)
(*   overflow_checks  `2 * target` panics on overflow (dev profile) or     *)
(*                    wraps (release profile);                             *)
(*   align_checks     dereferencing a *const u64 that is not 8-aligned is  *)
(*                    undefined behaviour: the build either reads the 8    *)
(*                    bytes (no check is compiled in) or panics with       *)
(*                    "misaligned pointer dereference" (debug assertions). *)
(* A u64 does not fit TLC's integers: the comparator's 64-bit values are   *)
(* kept as their 8 base-256 digits, most significant first, and compared   *)
(* digit by digit.  On a little-endian target swap_bytes() of the word     *)
(* read at offset o has exactly the bytes o .. o+7 as these digits.        *)
(***************************************************************************)
EXTENDS Integers, Sequences, FiniteSets, TLC

\* ------------------------------------------------------------ constants
\* mem::size_of::<u64>()
SIZEOF_U64 == 8

\* `target_chunksize_bytes < 64`
MIN_TARGET == 64

\* alignment of u64, checked on dereference when align_checks
ALIGNOF_U64 == 8

\* ------------------------------------------------------------ bounds
\* usize is modelled UsizeBits wide (the code's is 32 or 64)
UsizeBits == 12

\* pulls allowed on a session after it first returned None
MaxNonePulls == 2

\* longest buffer of the general specification
MaxLen == 150

UsizeModulus == 2 ^ UsizeBits

Usize == 0 .. (UsizeModulus - 1)

Byte == 0 .. 255

\* ------------------------------------------------------------ state
VARIABLES
    buffer,           \* the bytes the caller owns; the Chunker only borrows them
    base,             \* address of buffer[1] (only its alignment matters)
    overflow_checks,  \* build: integer overflow panics (TRUE) or wraps (FALSE)
    align_checks,     \* build: a misaligned u64 read panics (TRUE) or reads (FALSE)
    sess              \* per session: the call's arguments, the Chunker, what it returned

vars == <<buffer, base, overflow_checks, align_checks, sess>>

\* ------------------------------------------------------------ memory
\* A slice &[u8] is a pointer and a length.
MkSlice(ptr, len) == [ptr |-> ptr, len |-> len]

\* the byte at address a
Mem(a) == buffer[a - base + 1]

InBuffer(a) == base <= a /\ a < base + Len(buffer)

\* the bytes a slice views
Bytes(sl) == [k \in 1 .. sl.len |-> Mem(sl.ptr + k - 1)]

\* ------------------------------------------------------------ bytes
RECURSIVE XorBits(_, _, _)
XorBits(a, b, n) ==
    IF n = 0 THEN 0
    ELSE ((a + b) % 2) + 2 * XorBits(a \div 2, b \div 2, n - 1)

\* a ^ b for every pair of bytes
XorTable == [a \in Byte |-> [b \in Byte |-> XorBits(a, b, 8)]]

\* a ^ b on one byte
Xor8(a, b) == XorTable[a][b]

\* Digit k (1 is the most significant) of  (*p).swap_bytes() ^ salt :
\* the byte at p + k - 1, xor-ed with the salt's digit k.
SwappedSalted(p, salt, k) == Xor8(Mem(p + k - 1), salt[k])

\* x > y for two u64 given by their digits from digit k on
RECURSIVE DigitsGt(_, _, _, _)
DigitsGt(first, second, salt, k) ==
    IF k > SIZEOF_U64 THEN FALSE
    ELSE LET compare_first == SwappedSalted(first, salt, k)
             compare_second == SwappedSalted(second, salt, k)
         IN  IF compare_first # compare_second THEN compare_first > compare_second
             ELSE DigitsGt(first, second, salt, k + 1)

\* mutant: the comparison is not strict
swapped_salted_isge(first, second, salt) == ~DigitsGt(second, first, salt, 1)

\* compare_first > compare_second
swapped_salted_isgt(first, second, salt) == DigitsGt(first, second, salt, 1)

\* What dereferencing p as *const u64 does in this build: "read" the 8 bytes,
\* "panic" (misaligned, and the build checks), or "ub" (bytes past the end of
\* the buffer: no outcome is defined).
Deref(p) ==
    IF align_checks /\ p % ALIGNOF_U64 # 0 THEN "panic"
    ELSE IF ~(InBuffer(p) /\ InBuffer(p + SIZEOF_U64 - 1)) THEN "ub"
    ELSE "read"

\* ------------------------------------------------------------ results
\* One call of the comparator: the offsets (into `remaining`) of the two words
\* it was handed and how the call ended ("gt": first > second, "le": not,
\* "panic" or "ub": a read did not complete).
Compared(i, marker_position, outcome) ==
    [i |-> i, marker |-> marker_position, outcome |-> outcome]

\* What next_chunked_slice did: the slice it returned (its length and the rule
\* that cut it) or how it failed, and the comparator calls it made, in order.
Sliced(len, how, trace) ==
    [kind |-> "slice", len |-> len, how |-> how, cmps |-> Len(trace), trace |-> trace]

Panicked(why, trace) ==
    [kind |-> "panic", len |-> 0, how |-> why, cmps |-> Len(trace), trace |-> trace]

Undefined(trace) ==
    [kind |-> "ub", len |-> 0, how |-> "read_past_end", cmps |-> Len(trace),
     trace |-> trace]

\* ------------------------------------------------------------ scanner
\* The state of the for loop of next_chunked_slice before candidate i: the
\* marker, the comparator calls made so far, and the result once the loop has
\* returned or panicked (done).
LoopAt(i, marker_position, trace) ==
    [done |-> FALSE, i |-> i, marker_position |-> marker_position, trace |-> trace,
     res |-> Sliced(0, "none", trace)]

LoopDone(st, res) == [st EXCEPT !.done = TRUE, !.trace = res.trace, !.res = res]

\* mutant: the ceiling test is missing
AtCeilingNever(i, max_chunksize) == FALSE

\* `if i == max_chunksize`
AtCeiling(i, max_chunksize) == i = max_chunksize

\* mutant: the window rule fires at or after the end of the window
AtWindowEndOrLater(i, marker_position, window_size) == i >= marker_position + window_size

\* `if i == marker_position + window_size`
AtWindowEnd(i, marker_position, window_size) == i = marker_position + window_size

\* One iteration of the loop body, for candidate st.i.
ScanStep(remaining, window_size, max_chunksize, salt, st) ==
    LET i == st.i
        marker_position == st.marker_position
        current_as_u64 == remaining.ptr + i
        marker_as_u64 == remaining.ptr + marker_position
        first == Deref(current_as_u64)
        second == Deref(marker_as_u64)
        called(outcome) == Append(st.trace, Compared(i, marker_position, outcome))
    IN  CASE AtCeiling(i, max_chunksize) ->
               IF i > remaining.len
               THEN LoopDone(st, Panicked("slice_index", st.trace))
               ELSE LoopDone(st, Sliced(i, "ceiling", st.trace))
          [] ~AtCeiling(i, max_chunksize)
                 /\ (i >= remaining.len \/ marker_position >= remaining.len) ->
               LoopDone(st, Panicked("index", st.trace))
          [] OTHER ->
               IF first # "read" THEN
                   LoopDone(st, IF first = "panic" THEN Panicked("misaligned", called("panic"))
                                ELSE Undefined(called("ub")))
               ELSE IF second # "read" THEN
                   LoopDone(st, IF second = "panic" THEN Panicked("misaligned", called("panic"))
                                ELSE Undefined(called("ub")))
               ELSE IF ~swapped_salted_isgt(current_as_u64, marker_as_u64, salt) THEN
                   LoopAt(i + 1, i, called("le"))
               ELSE IF AtWindowEnd(i, marker_position, window_size) THEN
                   LoopDone(st, Sliced(i, "window", called("gt")))
               ELSE LoopAt(i + 1, marker_position, called("gt"))

\* The next n iterations of the loop from state st (fewer if it returns).
\* The iterations run in order; the halving only keeps the evaluation shallow,
\* and the state after the first half is computed once (mid).
RECURSIVE ScanRun(_, _, _, _, _, _)
ScanRun(remaining, window_size, max_chunksize, salt, st, n) ==
    IF st.done \/ n <= 0 THEN st
    ELSE IF n = 1 THEN ScanStep(remaining, window_size, max_chunksize, salt, st)
    ELSE CHOOSE res \in
             {ScanRun(remaining, window_size, max_chunksize, salt, mid, n - (n \div 2)) :
                 mid \in {ScanRun(remaining, window_size, max_chunksize, salt,
                                  st, n \div 2)}} : TRUE

\* the loop without the warp forward: the same loop started at candidate 1
\* (candidate 0 is the initial marker itself)
ScanLoopUnskipped(remaining, window_size, min_chunksize, max_chunksize, salt, end_index) ==
    ScanRun(remaining, window_size, max_chunksize, salt,
            LoopAt(1, 0, <<>>), end_index - 1)

\* mutant: the marker starts at the last full word of the slice
ScanLoopMarkerAtEnd(remaining, window_size, min_chunksize, max_chunksize, salt, end_index) ==
    ScanRun(remaining, window_size, max_chunksize, salt,
            LoopAt(min_chunksize, end_index, <<>>), end_index - min_chunksize)

\* for i in min_chunksize..end_index { ... }
ScanLoop(remaining, window_size, min_chunksize, max_chunksize, salt, end_index) ==
    ScanRun(remaining, window_size, max_chunksize, salt,
            LoopAt(min_chunksize, 0, <<>>), end_index - min_chunksize)

\* mutant: the loop runs to the end of the slice, not to the last full word
EndIndexWholeLength(remaining_bytes_length) ==
    [ok |-> TRUE, v |-> remaining_bytes_length]

\* mutant: the range of the loop includes the last full word
EndIndexInclusive(remaining_bytes_length) ==
    IF remaining_bytes_length >= SIZEOF_U64
    THEN [ok |-> TRUE, v |-> remaining_bytes_length - SIZEOF_U64 + 1]
    ELSE [ok |-> ~overflow_checks,
          v |-> remaining_bytes_length - SIZEOF_U64 + 1 + UsizeModulus]

\* remaining_bytes_length - SIZEOF_U64 in usize
EndIndex(remaining_bytes_length) ==
    IF remaining_bytes_length >= SIZEOF_U64
    THEN [ok |-> TRUE, v |-> remaining_bytes_length - SIZEOF_U64]
    ELSE [ok |-> ~overflow_checks,
          v |-> remaining_bytes_length - SIZEOF_U64 + UsizeModulus]

\* mutant: the tail rule forgets the window
TailLimitMinOnly(window_size, min_chunksize) == min_chunksize

TailLimit(window_size, min_chunksize) == min_chunksize + window_size

\* mutant: the forced cutpoint forgets the ceiling
CutpointWholeRemainder(max_chunksize, remaining_bytes_length) == remaining_bytes_length

\* the forced cutpoint once the loop has run out
Cutpoint(max_chunksize, remaining_bytes_length) ==
    IF max_chunksize < remaining_bytes_length
    THEN max_chunksize ELSE remaining_bytes_length

next_chunked_slice(remaining, window_size, min_chunksize, max_chunksize, salt) ==
    LET remaining_bytes_length == remaining.len
        end_index == EndIndex(remaining_bytes_length)
    IN  IF remaining_bytes_length <= TailLimit(window_size, min_chunksize)
        THEN Sliced(remaining_bytes_length, "tail", <<>>)
        ELSE IF ~end_index.ok THEN Panicked("subtract_overflow", <<>>)
        ELSE LET st == ScanLoop(remaining, window_size, min_chunksize, max_chunksize,
                                salt, end_index.v)
                 cutpoint == Cutpoint(max_chunksize, remaining_bytes_length)
             IN  IF st.done THEN st.res
                 ELSE Sliced(cutpoint, "forced", st.trace)

\* next_chunked_slice without the warp forward
next_chunked_slice_unskipped(remaining, window_size, min_chunksize, max_chunksize, salt) ==
    LET remaining_bytes_length == remaining.len
        end_index == EndIndex(remaining_bytes_length)
    IN  IF remaining_bytes_length <= TailLimit(window_size, min_chunksize)
        THEN Sliced(remaining_bytes_length, "tail", <<>>)
        ELSE IF ~end_index.ok THEN Panicked("subtract_overflow", <<>>)
        ELSE LET st == ScanLoopUnskipped(remaining, window_size, min_chunksize,
                                         max_chunksize, salt, end_index.v)
                 cutpoint == Cutpoint(max_chunksize, remaining_bytes_length)
             IN  IF st.done THEN st.res
                 ELSE Sliced(cutpoint, "forced", st.trace)

\* ------------------------------------------------------------ construction
\* floor(n * 10^k / d) by long division, from q = n \div d and r = n % d
RECURSIVE ScaledDiv(_, _, _, _)
ScaledDiv(q, r, d, k) ==
    IF k = 0 THEN q
    ELSE ScaledDiv(q * 10 + (r * 10) \div d, (r * 10) % d, d, k - 1)

\* (consts::E - 1.0) * 10^8, rounded
E_MINUS_1_E8 == 171828183

\* (target_chunksize_bytes as f64 / (consts::E - 1.0)) as usize
\* (equal to the f64 computation for every target below 31082)
TargetWindowSize(target_chunksize_bytes) ==
    ScaledDiv(target_chunksize_bytes \div E_MINUS_1_E8,
              target_chunksize_bytes % E_MINUS_1_E8, E_MINUS_1_E8, 8)

\* (target_window_size as f64 * 0.56) as usize
MyWindowSize(target_window_size) == (target_window_size * 56) \div 100

NoChunker ==
    [slice |-> [ptr |-> 0, len |-> 0], window_size |-> 0, max_chunksize |-> 0,
     min_chunksize |-> 0, salt |-> <<>>, bytes_processed |-> 0, bytes_remaining |-> 0]

\* 2 * target_chunksize_bytes in usize: the product the comparison sees, and
\* whether computing it panics in this build
TwiceTarget(target_chunksize_bytes) ==
    [panics |-> overflow_checks /\ 2 * target_chunksize_bytes >= UsizeModulus,
     v |-> (2 * target_chunksize_bytes) % UsizeModulus]

MaxTooSmall(target_chunksize_bytes, max_chunksize_bytes) ==
    TwiceTarget(target_chunksize_bytes).v > max_chunksize_bytes

\* mutant: the floor of the target is off by one
TargetTooSmallOffByOne(target_chunksize_bytes) == target_chunksize_bytes < MIN_TARGET - 1

TargetTooSmall(target_chunksize_bytes) == target_chunksize_bytes < MIN_TARGET

\* mutant: the salt comes from a process-level source (the first Chunker of the
\* process gets the caller's, a later one does not)
NewChunkerAmbientSalt(slice, my_window_size, min_chunksize, max_chunksize_bytes, salt) ==
    [slice |-> slice,
     window_size |-> my_window_size,
     salt |-> IF \E s \in DOMAIN sess : sess[s].phase # "new"
              THEN <<255, 255, 255, 255, 255, 255, 255, 255>> ELSE salt,
     max_chunksize |-> max_chunksize_bytes,
     min_chunksize |-> min_chunksize,
     bytes_processed |-> 0,
     bytes_remaining |-> slice.len]

\* the Chunker literal with_params returns
NewChunker(slice, my_window_size, min_chunksize, max_chunksize_bytes, salt) ==
    [slice |-> slice,
     window_size |-> my_window_size,
     salt |-> salt,
     max_chunksize |-> max_chunksize_bytes,
     min_chunksize |-> min_chunksize,
     bytes_processed |-> 0,
     bytes_remaining |-> slice.len]

with_params(slice, target_chunksize_bytes, max_chunksize_bytes, salt) ==
    IF TwiceTarget(target_chunksize_bytes).panics THEN
        [kind |-> "panic", err |-> "multiply_overflow", chunker |-> NoChunker]
    ELSE IF MaxTooSmall(target_chunksize_bytes, max_chunksize_bytes) THEN
        [kind |-> "Err", err |-> "InsufficientMaxSize", chunker |-> NoChunker]
    ELSE IF TargetTooSmall(target_chunksize_bytes) THEN
        [kind |-> "Err", err |-> "InsufficientTargetSize", chunker |-> NoChunker]
    ELSE LET target_window_size == TargetWindowSize(target_chunksize_bytes)
             my_window_size == MyWindowSize(target_window_size)
             min_chunksize == target_chunksize_bytes - target_window_size
         IN  [kind |-> "Ok", err |-> "none",
              chunker |-> NewChunker(slice, my_window_size, min_chunksize,
                                     max_chunksize_bytes, salt)]

\* ------------------------------------------------------------ iteration
\* &self.slice[(self.bytes_processed)..]
SliceFrom(sl, from) == MkSlice(sl.ptr + from, sl.len - from)

\* &remaining[..cutpoint]
SliceTo(sl, to) == MkSlice(sl.ptr, to)

\* mutant: the cursor's bytes_processed is not advanced
AdvanceRemainingOnly(self, n) == [self EXCEPT !.bytes_remaining = @ - n]

\* the cursor after a chunk of n bytes was taken
Advance(self, n) ==
    [self EXCEPT !.bytes_processed = @ + n, !.bytes_remaining = @ - n]

NoSlice == MkSlice(0, 0)

\* what a call of next leaves and returns
Returned(self, ret, slice, how, trace) ==
    [self |-> self, ret |-> ret, slice |-> slice, how |-> how, cmps |-> Len(trace),
     trace |-> trace]

\* the rest of next once the scanner has answered r for `remaining`
NextSlice(self, remaining, r) ==
    IF r.kind # "slice" THEN Returned(self, r.kind, NoSlice, r.how, r.trace)
    ELSE IF r.len > remaining.len THEN
        Returned(self, "panic", NoSlice, "slice_index", r.trace)
    ELSE IF r.len > self.bytes_remaining /\ overflow_checks THEN
        Returned(self, "panic", NoSlice, "subtract_overflow", r.trace)
    ELSE Returned([Advance(self, r.len) EXCEPT !.bytes_remaining = @ % UsizeModulus],
                  "Some", SliceTo(remaining, r.len), r.how, r.trace)

\* next when bytes are left: scan the unconsumed suffix, advance the cursor
NextChunk(self) ==
    IF self.bytes_processed > self.slice.len THEN
        Returned(self, "panic", NoSlice, "slice_index", <<>>)
    ELSE NextSlice(self, SliceFrom(self.slice, self.bytes_processed),
                   next_chunked_slice(SliceFrom(self.slice, self.bytes_processed),
                                      self.window_size, self.min_chunksize,
                                      self.max_chunksize, self.salt))

\* mutant: the exhaustion test is missing
next_unguarded(self) == NextChunk(self)

\* mutant: an exhausted Chunker rewinds when it reports None
next_rewinding(self) ==
    IF self.bytes_remaining = 0
    THEN Returned([self EXCEPT !.bytes_processed = 0, !.bytes_remaining = self.slice.len],
                  "None", NoSlice, "none", <<>>)
    ELSE NextChunk(self)

\* Iterator::next: the Chunker afterwards and what the call returned
\* ("None", "Some" with the slice, or "panic" / "ub").
next(self) ==
    IF self.bytes_remaining = 0 THEN Returned(self, "None", NoSlice, "none", <<>>)
    ELSE NextChunk(self)

\* ------------------------------------------------------------ sessions
Sessions == {1, 2}

\* A session before its with_params call.  Besides the Chunker (c) a session
\* records what its calls returned: the chunks (out) and the rule that cut each
\* (hows), and of the latest pull the result (last, how), the bytes that
\* remained when it started (rem) and its comparator calls (cmps, trace).
NewSession ==
    [phase |-> "new", err |-> "none",
     args |-> [target |-> 0, max |-> 0, salt |-> <<>>],
     c |-> NoChunker, out |-> <<>>, hows |-> <<>>, last |-> "none", how |-> "none",
     rem |-> 0, cmps |-> 0, trace |-> <<>>, nones |-> 0]

\* Chunker::with_params(slice, target, max, salt) for session s
CreateOver(s, slice, target, max, salt) ==
    /\ sess[s].phase = "new"
    /\ \E r \in {with_params(slice, target, max, salt)} :
           sess' = [sess EXCEPT ![s] =
                [@ EXCEPT !.phase = CASE r.kind = "Ok" -> "ok"
                                      [] r.kind = "Err" -> "err"
                                      [] OTHER -> "panic",
                          !.err = r.err,
                          !.args = [target |-> target, max |-> max, salt |-> salt],
                          !.c = r.chunker]]
    /\ UNCHANGED <<buffer, base, overflow_checks, align_checks>>

\* Chunker::with_params(&buffer[..], target, max, salt) for session s
Create(s, target, max, salt) ==
    CreateOver(s, MkSlice(base, Len(buffer)), target, max, salt)

\* mutant: the cursor is shared by the Chunkers of a buffer (a static), so a
\* pull of one session moves the cursor of the others
PullSharedCursor(s) ==
    /\ sess[s].phase = "ok"
    /\ sess[s].nones < MaxNonePulls
    /\ \E r \in {next(sess[s].c)} :
           sess' = [t \in Sessions |->
                IF t = s THEN
                    [sess[s] EXCEPT !.phase = IF r.ret \in {"Some", "None"} THEN "ok" ELSE r.ret,
                          !.c = r.self,
                          !.out = IF r.ret = "Some" THEN Append(@, r.slice) ELSE @,
                          !.hows = IF r.ret = "Some" THEN Append(@, r.how) ELSE @,
                          !.last = r.ret,
                          !.how = r.how,
                          !.rem = sess[s].c.bytes_remaining,
                          !.cmps = r.cmps,
                          !.trace = r.trace,
                          !.nones = IF r.ret = "None" THEN @ + 1 ELSE @]
                ELSE IF sess[t].phase = "ok" THEN
                    [sess[t] EXCEPT !.c.bytes_processed = r.self.bytes_processed,
                                    !.c.bytes_remaining = r.self.bytes_remaining]
                ELSE sess[t]]
    /\ UNCHANGED <<buffer, base, overflow_checks, align_checks>>

\* chunker.next() for session s
Pull(s) ==
    /\ sess[s].phase = "ok"
    /\ sess[s].nones < MaxNonePulls
    /\ \E r \in {next(sess[s].c)} :
           sess' = [sess EXCEPT ![s] =
                [@ EXCEPT !.phase = IF r.ret \in {"Some", "None"} THEN "ok" ELSE r.ret,
                          !.c = r.self,
                          !.out = IF r.ret = "Some" THEN Append(@, r.slice) ELSE @,
                          !.hows = IF r.ret = "Some" THEN Append(@, r.how) ELSE @,
                          !.last = r.ret,
                          !.how = r.how,
                          !.rem = sess[s].c.bytes_remaining,
                          !.cmps = r.cmps,
                          !.trace = r.trace,
                          !.nones = IF r.ret = "None" THEN @ + 1 ELSE @]]
    /\ UNCHANGED <<buffer, base, overflow_checks, align_checks>>

\* ------------------------------------------------------------ inputs
\* salts, as the 8 bytes of the u64, most significant first:
\* 0, u64::MAX and the crate documentation's 15222894464462204665
Salts ==
    { <<0, 0, 0, 0, 0, 0, 0, 0>>,
      <<255, 255, 255, 255, 255, 255, 255, 255>>,
      <<211, 66, 149, 220, 111, 135, 174, 249>> }

\* buffer k-th byte of a sawtooth of period n started at phase ph, rising or falling
SawByte(n, ph, down, k) ==
    LET v == (ph + k - 1) % n IN IF down THEN 255 - v ELSE v

SawBuffer(n, ph, down, len) == [k \in 1 .. len |-> SawByte(n, ph, down, k)]

\* period 1 is a constant buffer, 256 a ramp; 25 and 40 are longer than a window
Periods == {1, 3, 25, 40, 256}

Phases == {0, 7}

\* lengths around 0, the word size, the tail limits and max_chunksize
Lens ==
    {len \in 0 .. MaxLen :
        \/ len <= 1
        \/ len \in 7 .. 9
        \/ len \in 45 .. 57
        \/ len \in 73 .. 76
        \/ len >= 126}

\* byte k of an irregular buffer: quadratic residues modulo the prime 251
NoiseByte(seed, k) == ((k + seed) * (k + seed) * 37 + seed * 101) % 251

NoiseBuffer(seed, len) == [k \in 1 .. len |-> NoiseByte(seed, k)]

NoiseSeeds == {1, 2, 3}

Buffers ==
    {SawBuffer(n, ph, down, len) :
        n \in Periods, ph \in Phases, down \in BOOLEAN, len \in Lens}
    \cup {NoiseBuffer(seed, len) : seed \in NoiseSeeds, len \in Lens}

\* (target_chunksize, max_chunksize) pairs: accepted, and each way of being refused
ParamPairs == {<<64, 128>>, <<100, 200>>, <<64, 127>>, <<63, 1024>>, <<8, 16>>}

\* the release profile (no checks) and the dev profile (both checks)
Builds ==
    { [overflow_checks |-> FALSE, align_checks |-> FALSE],
      [overflow_checks |-> TRUE, align_checks |-> TRUE] }

\* buffer addresses modulo the alignment of u64 (read only by a checking build)
Bases(b) == IF b.align_checks THEN {0, 5} ELSE {0}

InitWith(bufs) ==
    /\ buffer \in bufs
    /\ \E b \in Builds :
          /\ overflow_checks = b.overflow_checks
          /\ align_checks = b.align_checks
          /\ base \in Bases(b)
    /\ sess = [s \in Sessions |-> NewSession]

\* ------------------------------------------------------------ one session
Init == InitWith(Buffers)

Next ==
    \/ \E pp \in ParamPairs, salt \in Salts : Create(1, pp[1], pp[2], salt)
    \/ Pull(1)

Spec == Init /\ [][Next]_vars

\* ------------------------------------------------------------ one session, pulled on
\* buffer lengths of the fair specification: empty, the tail limit, one more,
\* and the longest
FairLens == {0, 47, 48, MaxLen}

FairBuffers ==
    {SawBuffer(n, 0, FALSE, len) : n \in {1, 25}, len \in FairLens}
    \cup {NoiseBuffer(seed, len) : seed \in NoiseSeeds, len \in FairLens}

InitFair == InitWith(FairBuffers)

\* the caller keeps pulling: `for x in chunker` calls next until it returns None
SpecFair == InitFair /\ [][Next]_vars /\ WF_vars(Pull(1))

\* ------------------------------------------------------------ two sessions
PairLens == {0, 47, 48, 100, 140, MaxLen}

PairBuffers ==
    {SawBuffer(n, 0, down, len) : n \in {1, 25, 256}, down \in BOOLEAN, len \in PairLens}
    \cup {NoiseBuffer(seed, len) : seed \in NoiseSeeds, len \in PairLens}

PairParams == {<<64, 128>>, <<64, 127>>}

PairSalts ==
    { <<0, 0, 0, 0, 0, 0, 0, 0>>, <<211, 66, 149, 220, 111, 135, 174, 249>> }

InitPair == InitWith(PairBuffers)

NextPair ==
    \/ \E s \in Sessions, pp \in PairParams, salt \in PairSalts :
          Create(s, pp[1], pp[2], salt)
    \/ \E s \in Sessions : Pull(s)

SpecPair == InitPair /\ [][NextPair]_vars

\* ------------------------------------------------------------ two buffers
\* Two buffers R and R' laid out one after the other: R has LocalLen bytes,
\* R' repeats the first k bytes of R and goes on with other bytes.
LocalLen == 140

\* how many bytes R' shares with R
AgreeLens == 55 .. LocalLen

\* how many bytes R' has after the shared ones
TailLens == {1, 40}

LocalBuffers ==
    {NoiseBuffer(seed, LocalLen) : seed \in NoiseSeeds}
    \cup {SawBuffer(n, 0, FALSE, LocalLen) : n \in {1, 25, 40}}

LocalTails ==
    {SawBuffer(1, 255, FALSE, len) : len \in TailLens}
    \cup {NoiseBuffer(7, len) : len \in TailLens}

InitLocal ==
    InitWith({r \o SubSeq(r, 1, k) \o tail :
                 r \in LocalBuffers, k \in AgreeLens, tail \in LocalTails})

\* the slice R and the slice R'
SliceR == MkSlice(base, LocalLen)

SliceR2 == MkSlice(base + LocalLen, Len(buffer) - LocalLen)

\* session 1 chunks R; when it has stopped, session 2 chunks R' with the same
\* parameters and salt
NextLocal ==
    \/ \E salt \in PairSalts : CreateOver(1, SliceR, 64, 128, salt)
    \/ Pull(1)
    \/ /\ sess[1].last = "None" \/ sess[1].phase \in {"panic", "ub"}
       /\ CreateOver(2, SliceR2, sess[1].args.target, sess[1].args.max, sess[1].args.salt)
    \/ Pull(2)

SpecLocal == InitLocal /\ [][NextLocal]_vars

\* ------------------------------------------------------------ constant buffers
\* longest constant buffer
MaxConstLen == 2100

\* the ceiling the constant-buffer property is stated for
CONST_TARGET == 64

CONST_MAX == 1024

\* lengths around the multiples of CONST_MAX, the word size and the tail limit
ConstLens ==
    {len \in 0 .. MaxConstLen :
        \/ len % CONST_MAX <= 9
        \/ len % CONST_MAX \in {47, 48}
        \/ len % CONST_MAX = CONST_MAX - 1}

ConstBytes == {0, 170}

ConstBuffers == {[k \in 1 .. len |-> v] : v \in ConstBytes, len \in ConstLens}

InitConst == InitWith(ConstBuffers)

NextConst ==
    \/ \E salt \in Salts : Create(1, CONST_TARGET, CONST_MAX, salt)
    \/ Pull(1)

SpecConst == InitConst /\ [][NextConst]_vars

\* ------------------------------------------------------------ construction only
\* how far the sampled parameters reach from 0, from half the usize range and
\* from its top
ParamSpan == 70

ParamTargets ==
    {t \in Usize :
        \/ t <= ParamSpan
        \/ t >= UsizeModulus \div 2 /\ t <= UsizeModulus \div 2 + ParamSpan
        \/ t >= UsizeModulus - ParamSpan}

ParamMaxes ==
    {m \in Usize : m <= 2 * ParamSpan \/ m >= UsizeModulus - 4}

InitParams == InitWith({<<>>, SawBuffer(25, 0, FALSE, 60)})

NextParams ==
    /\ sess[1].phase = "new"
    /\ \E t \in ParamTargets, m \in ParamMaxes :
          Create(1, t, m, <<0, 0, 0, 0, 0, 0, 0, 0>>)

SpecParams == InitParams /\ [][NextParams]_vars

\* ------------------------------------------------------------ properties
\* session s holds a Chunker (with_params returned Ok)
Made(s) == sess[s].phase \in {"ok", "panic", "ub"} /\ sess[s].err = "none"

\* the arguments of session s are valid: target >= 64 and max >= 2 * target
Valid(s) ==
    /\ sess[s].args.target >= MIN_TARGET
    /\ sess[s].args.max >= 2 * sess[s].args.target

\* a slice's offset into the buffer
Off(sl) == sl.ptr - base

InBounds(sl) == Off(sl) >= 0 /\ Off(sl) + sl.len <= Len(buffer)

RECURSIVE SumLens(_, _)
SumLens(out, k) == IF k = 0 THEN 0 ELSE SumLens(out, k - 1) + out[k].len

RECURSIVE ConcatBytes(_, _)
ConcatBytes(out, k) ==
    IF k = 0 THEN <<>> ELSE ConcatBytes(out, k - 1) \o Bytes(out[k])

\* session s has returned None
Exhausted(s) == sess[s].last = "None"

\* C1: in every reachable state of a constructed session, bytes_processed +
\* bytes_remaining = len(buffer); every chunk returned so far starts at the
\* cursor left by the chunks before it (the sum of their lengths) and lies in
\* the buffer; the chunks concatenated are buffer[0 .. bytes_processed]; and
\* once bytes_remaining = 0 they are the whole buffer.
C1_Partition ==
    \A s \in Sessions : Made(s) =>
        LET c == sess[s].c
            out == sess[s].out
        IN  /\ c.bytes_processed + c.bytes_remaining = Len(buffer)
            /\ \A k \in 1 .. Len(out) :
                  InBounds(out[k]) /\ Off(out[k]) = SumLens(out, k - 1)
            /\ SumLens(out, Len(out)) = c.bytes_processed
            /\ ConcatBytes(out, Len(out)) = SubSeq(buffer, 1, c.bytes_processed)
            /\ (c.bytes_remaining = 0 => ConcatBytes(out, Len(out)) = buffer)

\* C1 witness: a session has cut a buffer into three or more chunks and is exhausted
C1_Witness ==
    \E s \in Sessions :
        Made(s) /\ Exhausted(s) /\ Len(sess[s].out) >= 3 /\ Len(buffer) > 0

\* C2: with valid parameters every returned chunk has a length in
\* 1 .. max_chunksize, and no more than the bytes that remained before its pull.
C2_ChunkBounds ==
    \A s \in Sessions : (Made(s) /\ Valid(s)) =>
        \A k \in 1 .. Len(sess[s].out) :
            /\ 1 <= sess[s].out[k].len
            /\ sess[s].out[k].len <= sess[s].args.max
            /\ sess[s].out[k].len <= Len(buffer) - SumLens(sess[s].out, k - 1)

\* C2 witness: a chunk of exactly max_chunksize bytes followed by a chunk of one byte
C2_Witness ==
    \E s \in Sessions :
        /\ Made(s) /\ Valid(s) /\ Len(sess[s].out) = 2
        /\ sess[s].out[1].len = sess[s].args.max
        /\ sess[s].out[2].len = 1

\* session s has stopped: it returned None, or a pull did not return
Stopped(s) == Exhausted(s) \/ sess[s].phase \in {"panic", "ub"}

\* the lengths of the chunks returned so far
ChunkLens(out) == [k \in 1 .. Len(out) |-> out[k].len]

\* C7: with valid parameters no pull fails: a constructed session never
\* panics and never reads outside the buffer, and a pull returns None only
\* with bytes_remaining = 0.
C7_PullsInfallible ==
    \A s \in Sessions : (Made(s) /\ Valid(s)) =>
        /\ sess[s].phase = "ok"
        /\ (sess[s].last = "None" => sess[s].c.bytes_remaining = 0)
        /\ (sess[s].last = "Some" => sess[s].out[Len(sess[s].out)].len >= 1)

\* Supporting C7: the only way a pull of a valid session fails is the
\* alignment check of a checking build on the comparator's u64 reads; no
\* slice index is out of range, no subtraction underflows, no read passes the
\* end of the buffer, in either build.
PullsFailOnlyMisaligned ==
    \A s \in Sessions : (Made(s) /\ Valid(s) /\ sess[s].phase # "ok") =>
        /\ align_checks
        /\ sess[s].phase = "panic"
        /\ sess[s].how = "misaligned"

\* C8: once a pull has returned None (bytes_remaining = 0), every later pull
\* returns None and leaves the Chunker and the chunks returned unchanged.
C8_ExhaustedStays ==
    /\ [](\A s \in Sessions : Exhausted(s) => sess[s].c.bytes_remaining = 0)
    /\ [][\A s \in Sessions : Exhausted(s) =>
            /\ sess'[s].last = "None"
            /\ sess'[s].phase = "ok"
            /\ sess'[s].c = sess[s].c
            /\ sess'[s].out = sess[s].out]_vars

\* C8 witness: a session that returned chunks has been pulled again after its first None
C8_Witness ==
    \E s \in Sessions :
        Exhausted(s) /\ sess[s].nones >= 2 /\ Len(sess[s].out) >= 2

\* C9: over an empty buffer, with_params with valid parameters returns a
\* Chunker that is exhausted from the start: bytes_remaining = 0, no pull
\* returns a chunk, every pull returns None.
C9_EmptyBuffer ==
    \A s \in Sessions : (Len(buffer) = 0 /\ Valid(s) /\ sess[s].phase # "new") =>
        /\ Made(s)
        /\ sess[s].phase = "ok"
        /\ sess[s].c.bytes_remaining = 0
        /\ sess[s].out = <<>>
        /\ sess[s].last \in {"none", "None"}

\* C9 witness: a session over the empty buffer was pulled and returned None
C9_Witness ==
    \E s \in Sessions :
        Len(buffer) = 0 /\ Valid(s) /\ Made(s) /\ Exhausted(s) /\ sess[s].out = <<>>

IsPrefix(a, b) == Len(a) <= Len(b) /\ SubSeq(b, 1, Len(a)) = a

RECURSIVE ExpectedConstLens(_)
ExpectedConstLens(len) ==
    IF len = 0 THEN <<>>
    ELSE IF len <= CONST_MAX THEN <<len>>
    ELSE <<CONST_MAX>> \o ExpectedConstLens(len - CONST_MAX)

\* C3: a session over a constant buffer of L bytes, target 64 and max 1024,
\* produces floor(L / 1024) chunks of 1024 bytes and then, if L mod 1024 # 0,
\* one chunk of L mod 1024 bytes: while it runs its chunk lengths are a prefix
\* of these, and when it has stopped they are exactly these.
C3_ConstantBuffer ==
    \A s \in Sessions : Made(s) =>
        /\ IsPrefix(ChunkLens(sess[s].out), ExpectedConstLens(Len(buffer)))
        /\ Stopped(s) => ChunkLens(sess[s].out) = ExpectedConstLens(Len(buffer))

\* Supporting C3: the same, for the builds that do not check the alignment of
\* the comparator's reads.
ConstantBufferUnchecked == align_checks \/ C3_ConstantBuffer

\* C5: with_params fails with InsufficientMaxSize, and makes no Chunker,
\* whenever max_chunksize < 2 * target_chunksize.
C5_MaxTooSmallRejected ==
    \A s \in Sessions :
        (sess[s].phase # "new" /\ sess[s].args.max < 2 * sess[s].args.target) =>
            /\ sess[s].phase = "err"
            /\ sess[s].err = "InsufficientMaxSize"
            /\ sess[s].c = NoChunker

\* Supporting C5: the same where 2 * target_chunksize does not overflow usize.
MaxTooSmallRejectedNoOverflow ==
    \A s \in Sessions :
        (/\ sess[s].phase # "new"
         /\ sess[s].args.max < 2 * sess[s].args.target
         /\ 2 * sess[s].args.target < UsizeModulus) =>
            /\ sess[s].phase = "err"
            /\ sess[s].err = "InsufficientMaxSize"
            /\ sess[s].c = NoChunker

\* C6 as stated: with_params fails with InsufficientTargetSize whenever
\* target_chunksize < 64, whatever max_chunksize is.
C6_TargetTooSmallAnyMax ==
    \A s \in Sessions :
        (sess[s].phase # "new" /\ sess[s].args.target < MIN_TARGET) =>
            /\ sess[s].phase = "err"
            /\ sess[s].err = "InsufficientTargetSize"

\* C6 amended: whenever target_chunksize < 64, with_params fails and makes no
\* Chunker; the error is InsufficientTargetSize when max_chunksize >= 2 *
\* target_chunksize, and InsufficientMaxSize (the first test) otherwise.
C6_TargetTooSmallRejected ==
    \A s \in Sessions :
        (sess[s].phase # "new" /\ sess[s].args.target < MIN_TARGET) =>
            /\ sess[s].phase = "err"
            /\ sess[s].c = NoChunker
            /\ sess[s].err = IF sess[s].args.max < 2 * sess[s].args.target
                             THEN "InsufficientMaxSize"
                             ELSE "InsufficientTargetSize"

\* C6 witness: target 63 with a max of at least 126 was refused with InsufficientTargetSize
C6_Witness ==
    \E s \in Sessions :
        /\ sess[s].args.target = MIN_TARGET - 1
        /\ sess[s].args.max >= 2 * (MIN_TARGET - 1)
        /\ sess[s].phase = "err"
        /\ sess[s].err = "InsufficientTargetSize"

\* C10: for all usize target and max, with_params returns a Chunker only if
\* 2 * target <= max and target >= 64 hold of the numbers themselves;
\* otherwise it returns an error value and no Chunker.
C10_OkOnlyIfValid ==
    \A s \in Sessions : sess[s].phase # "new" =>
        IF 2 * sess[s].args.target <= sess[s].args.max /\ sess[s].args.target >= MIN_TARGET
        THEN sess[s].phase = "ok"
        ELSE sess[s].phase = "err" /\ sess[s].c = NoChunker

\* what a session run alone returns: the chunks of its pulls up to the first
\* pull that returns no chunk, and what that pull returned
RECURSIVE SoloPulls(_, _)
SoloPulls(r, out) ==
    IF r.ret = "Some"
    THEN SoloPulls(next(r.self), Append(out, r.slice))
    ELSE [out |-> out, end |-> r.ret]

\* session s run alone over the buffer, with the arguments it was created with
SoloRun(s) ==
    SoloPulls(next(with_params(MkSlice(base, Len(buffer)), sess[s].args.target,
                               sess[s].args.max, sess[s].args.salt).chunker), <<>>)

\* C11: two sessions over the same buffer, pulled in any interleaving, each
\* return the chunks the session returns when run alone (at any moment a
\* prefix of them, all of them once it has stopped, and it stops the same way);
\* a step of one session leaves the other session's record (cursor,
\* parameters, chunks) and the buffer unchanged.
C11_Independent ==
    /\ [](\A s \in Sessions : Made(s) =>
            \A solo \in {SoloRun(s)} :
                /\ IsPrefix(sess[s].out, solo.out)
                /\ Stopped(s) =>
                      /\ sess[s].out = solo.out
                      /\ sess[s].last = solo.end)
    /\ [][/\ buffer' = buffer
          /\ \A s, t \in Sessions :
                (s # t /\ sess'[s] # sess[s]) => sess'[t] = sess[t]]_vars

\* C11 witness: with different salts, session 2 has run to exhaustion (two or
\* more chunks) while session 1 stands between its first and its second pull
C11_Witness ==
    /\ Made(1) /\ Made(2) /\ Valid(1) /\ Valid(2)
    /\ sess[1].args.salt # sess[2].args.salt
    /\ Len(sess[1].out) = 1 /\ sess[1].c.bytes_remaining > 0
    /\ Exhausted(2) /\ Len(sess[2].out) >= 2

\* the comparator calls of the latest pull of session s
Calls(s) == {sess[s].trace[k] : k \in 1 .. Len(sess[s].trace)}

\* C12: in every pull of a session with valid parameters, each offset o handed
\* to the comparator (the candidate i and the marker, the initial marker 0
\* included) has o + 8 <= len(remaining): no comparator read passes the end of
\* the buffer.
C12_ReadsInBounds ==
    \A s \in Sessions : (Made(s) /\ Valid(s)) =>
        /\ sess[s].phase # "ub"
        /\ \A e \in Calls(s) :
              /\ e.i + SIZEOF_U64 <= sess[s].rem
              /\ e.marker + SIZEOF_U64 <= sess[s].rem
              /\ e.outcome # "ub"

\* C12 witness: a pull compared the word at the initial marker 0 and, later,
\* the last candidate of the range (i = len(remaining) - 9), and returned
C12_Witness ==
    \E s \in Sessions :
        /\ Made(s) /\ Valid(s) /\ sess[s].last = "Some"
        /\ \E e \in Calls(s) : e.marker = 0
        /\ \E e \in Calls(s) : e.i = sess[s].rem - SIZEOF_U64 - 1

\* the latest pull of session s went past the tail rule into the scan
Scanned(s) ==
    /\ sess[s].last # "none"
    /\ sess[s].rem > sess[s].c.min_chunksize + sess[s].c.window_size

\* the address of the slice the latest pull of session s scanned
RemainingPtr(s) == sess[s].c.slice.ptr + (Len(buffer) - sess[s].rem)

\* the marker when the latest pull of session s left the loop
FinalMarker(s) ==
    IF sess[s].trace = <<>> THEN 0
    ELSE LET e == sess[s].trace[Len(sess[s].trace)]
         IN  IF e.outcome = "le" THEN e.i ELSE e.marker

\* the last index with a full 8-byte word in what the latest pull scanned
LastWord(s) == sess[s].rem - SIZEOF_U64

\* the window rule's condition holds at candidate i, for the marker the
\* latest pull of session s ended with
WindowCutAt(s, i) ==
    /\ i = FinalMarker(s) + sess[s].c.window_size
    /\ swapped_salted_isgt(RemainingPtr(s) + i, RemainingPtr(s) + FinalMarker(s),
                           sess[s].c.salt)

\* C13 as stated: the scan examines the candidates up to and including
\* len(remaining) - 8: a pull whose scan did not return before that index
\* returns a cut there (the chunk is len(remaining) - 8 bytes) when the
\* ceiling or the window condition holds there.
C13_CutAtLastWord ==
    \A s \in Sessions :
        (Made(s) /\ Valid(s) /\ Scanned(s) /\ sess[s].last = "Some"
            /\ sess[s].how = "forced") =>
            ((LastWord(s) = sess[s].c.max_chunksize \/ WindowCutAt(s, LastWord(s)))
                => sess[s].out[Len(sess[s].out)].len = LastWord(s))

\* C13 amended: the scan examines the candidates min_chunksize,
\* min_chunksize + 1, ... in increasing order up to and including
\* len(remaining) - 9, never len(remaining) - 8: a pull that returns by the
\* forced-cutpoint rule has examined all of them and returns
\* min(max_chunksize, len(remaining)); a window cut is the last candidate
\* examined and a ceiling cut the one after it.
C13_ScanExclusive ==
    \A s \in Sessions : (Made(s) /\ Valid(s) /\ Scanned(s)) =>
        /\ \A k \in 1 .. Len(sess[s].trace) :
              /\ sess[s].trace[k].i = sess[s].c.min_chunksize + k - 1
              /\ sess[s].trace[k].i <= LastWord(s) - 1
        /\ sess[s].last = "Some" =>
              \A len \in {sess[s].out[Len(sess[s].out)].len} :
                  /\ sess[s].how \in {"forced", "window", "ceiling"}
                  /\ sess[s].how = "forced" =>
                        /\ sess[s].cmps = LastWord(s) - sess[s].c.min_chunksize
                        /\ len = Cutpoint(sess[s].c.max_chunksize, sess[s].rem)
                  /\ sess[s].how = "window" =>
                        len = sess[s].c.min_chunksize + sess[s].cmps - 1
                  /\ sess[s].how = "ceiling" =>
                        /\ len = sess[s].c.min_chunksize + sess[s].cmps
                        /\ len = sess[s].c.max_chunksize

\* C13 witness: the window condition holds at len(remaining) - 8, the scan
\* ran out at len(remaining) - 9 and the pull returned the whole remainder
C13_Witness ==
    \E s \in Sessions :
        /\ Made(s) /\ Valid(s) /\ Scanned(s) /\ sess[s].last = "Some"
        /\ sess[s].how = "forced"
        /\ WindowCutAt(s, LastWord(s))
        /\ sess[s].trace[Len(sess[s].trace)].i = LastWord(s) - 1
        /\ sess[s].out[Len(sess[s].out)].len = sess[s].rem

\* what the latest pull of session s would have got from the scan that does
\* not skip the candidates below min_chunksize
Unskipped(s) ==
    next_chunked_slice_unskipped(MkSlice(RemainingPtr(s), sess[s].rem),
                                 sess[s].c.window_size, sess[s].c.min_chunksize,
                                 sess[s].c.max_chunksize, sess[s].c.salt)

\* the length of the chunk the latest pull of session s returned
LastLen(s) == sess[s].out[Len(sess[s].out)].len

\* the latest pull of session s scanned and returned a chunk
ScanReturned(s) == Made(s) /\ Valid(s) /\ Scanned(s) /\ sess[s].last = "Some"

\* C14 as stated: the warp forward does not change the result: the scan from
\* min_chunksize returns the length the same scan started at i = 1 returns.
C14_WarpEquivalent ==
    \A s \in Sessions : ScanReturned(s) =>
        \A u \in {Unskipped(s)} : u.kind = "slice" /\ u.len = LastLen(s)

\* the trace's call for candidate i moved the marker to i
MovedMarkerAt(trace, i) ==
    /\ trace # <<>>
    /\ i >= trace[1].i
    /\ i - trace[1].i + 1 <= Len(trace)
    /\ trace[i - trace[1].i + 1].i = i
    /\ trace[i - trace[1].i + 1].outcome = "le"

\* both scans move the marker to one same candidate (from which on they
\* are in the same state)
Synchronised(s, u) ==
    \E k \in 1 .. Len(sess[s].trace) :
        /\ MovedMarkerAt(sess[s].trace, sess[s].trace[k].i)
        /\ MovedMarkerAt(u.trace, sess[s].trace[k].i)

\* C14 amended: the warp forward can change the result.  The scan from
\* min_chunksize never returns less than min_chunksize + window_size; the
\* same scan started at i = 1 returns at least window_size, and it can
\* return a window cut below min_chunksize.  The two return the same length
\* when they move the marker to a common candidate before either returns, or
\* when neither returns by the window rule.
C14_WarpSynchronised ==
    \A s \in Sessions : ScanReturned(s) =>
        /\ LastLen(s) >= sess[s].c.min_chunksize + sess[s].c.window_size
        /\ \A u \in {Unskipped(s)} :
              /\ u.kind = "slice"
              /\ u.len >= sess[s].c.window_size
              /\ (Synchronised(s, u) \/ (u.how # "window" /\ sess[s].how # "window"))
                    => u.len = LastLen(s)

\* C14 witness: the unskipped scan moved its marker below min_chunksize, the
\* two scans then met at a common marker and returned the same window cut
C14_Witness ==
    \E s \in Sessions :
        /\ ScanReturned(s) /\ sess[s].how = "window"
        /\ \E u \in {Unskipped(s)} :
              /\ Synchronised(s, u)
              /\ u.len = LastLen(s)
              /\ \E i \in 1 .. (sess[s].c.min_chunksize - 1) : MovedMarkerAt(u.trace, i)

\* the divergence itself: the unskipped scan cut below min_chunksize
UnskippedCutsBelowMin ==
    \E s \in Sessions :
        ScanReturned(s) /\ Unskipped(s).len < sess[s].c.min_chunksize

\* The transformed value (byte-reversed word xor salt) of the word at offset
\* j of what the latest pull of session s scanned, as three numbers: its
\* digits 1-3, 4-6 and 7-8 (two values compare as these triples do).
Value(s, j) ==
    LET d(k) == SwappedSalted(RemainingPtr(s) + j, sess[s].c.salt, k)
    IN  << d(1) * 65536 + d(2) * 256 + d(3),
           d(4) * 65536 + d(5) * 256 + d(6),
           d(7) * 256 + d(8) >>

ValueLess(a, b) ==
    \/ a[1] < b[1]
    \/ a[1] = b[1] /\ a[2] < b[2]
    \/ a[1] = b[1] /\ a[2] = b[2] /\ a[3] < b[3]

\* the marker after the call e
MarkerAfter(e) == IF e.outcome = "le" THEN e.i ELSE e.marker

\* C15: throughout a scan the marker is the running non-strict minimum of the
\* transformed values: after candidate i is processed the marker is 0 or in
\* min_chunksize .. i, value(marker) <= value(j) for j = 0 and every visited
\* j, and value(j) > value(marker) for every visited j > marker; a return by
\* the window rule has value(i) > value(marker) and i = marker + window_size;
\* a candidate whose value ties the marker's moves the marker and does not cut.
C15_MarkerRunningMin ==
    \A s \in Sessions : (Made(s) /\ Valid(s) /\ Scanned(s) /\ sess[s].phase = "ok") =>
        \A value \in {[j \in 0 .. LastWord(s) |-> Value(s, j)]} :
            /\ \A k \in 1 .. Len(sess[s].trace) :
                  \A e \in {sess[s].trace[k]} :
                  \A m \in {MarkerAfter(e)} :
                      /\ m = 0 \/ (sess[s].c.min_chunksize <= m /\ m <= e.i)
                      /\ e.marker = IF k = 1 THEN 0 ELSE MarkerAfter(sess[s].trace[k - 1])
                      /\ \A j \in {0} \cup (sess[s].c.min_chunksize .. e.i) :
                            /\ ~ValueLess(value[j], value[m])
                            /\ j > m => ValueLess(value[m], value[j])
                      /\ value[e.i] = value[e.marker] => m = e.i
                      /\ (m = e.i) = ~ValueLess(value[e.marker], value[e.i])
            /\ sess[s].how = "window" =>
                  \A e \in {sess[s].trace[Len(sess[s].trace)]} :
                      /\ LastLen(s) = e.i
                      /\ e.i = e.marker + sess[s].c.window_size
                      /\ ValueLess(value[e.marker], value[e.i])
                      /\ \A k \in 1 .. (Len(sess[s].trace) - 1) :
                            sess[s].trace[k].outcome = "gt" =>
                                sess[s].trace[k].i
                                    # sess[s].trace[k].marker + sess[s].c.window_size

\* C15 witness: in one scan the marker moved on a tie and, later, on a strictly
\* smaller value, and the scan then returned by the window rule
C15_Witness ==
    \E s \in Sessions :
        /\ ScanReturned(s) /\ sess[s].how = "window"
        /\ \E e \in Calls(s) :
              e.outcome = "le" /\ Value(s, e.i) = Value(s, e.marker)
        /\ \E e \in Calls(s) :
              e.outcome = "le" /\ ValueLess(Value(s, e.i), Value(s, e.marker))

\* session s is about to pull with between 1 and min_chunksize + window_size
\* bytes remaining
InTail(s) ==
    /\ sess[s].phase = "ok" /\ Valid(s)
    /\ 1 <= sess[s].c.bytes_remaining
    /\ sess[s].c.bytes_remaining <= sess[s].c.min_chunksize + sess[s].c.window_size

\* C16: a pull that starts with 1 <= len(remaining) <= min_chunksize +
\* window_size returns the whole remainder as one chunk, without a comparator
\* call, and leaves bytes_remaining = 0; hence a buffer of 1 to min_chunksize
\* + window_size bytes yields exactly one chunk, the whole buffer.
C16_TailRule ==
    /\ [][\A s \in Sessions : (InTail(s) /\ sess'[s] # sess[s]) =>
            /\ sess'[s].last = "Some"
            /\ sess'[s].out =
                   Append(sess[s].out,
                          MkSlice(sess[s].c.slice.ptr + sess[s].c.bytes_processed,
                                  sess[s].c.bytes_remaining))
            /\ sess'[s].cmps = 0 /\ sess'[s].trace = <<>>
            /\ sess'[s].c.bytes_remaining = 0
            /\ sess'[s].c.bytes_processed = Len(buffer)]_vars
    /\ [](\A s \in Sessions :
            (/\ Made(s) /\ Valid(s) /\ sess[s].last # "none"
             /\ 1 <= Len(buffer)
             /\ Len(buffer) <= sess[s].c.min_chunksize + sess[s].c.window_size) =>
                /\ sess[s].phase = "ok"
                /\ sess[s].out = <<MkSlice(base, Len(buffer))>>
                /\ Bytes(sess[s].out[1]) = buffer)

\* C16 witness: a buffer of exactly min_chunksize + window_size bytes came
\* back as one chunk and the session then returned None
C16_Witness ==
    \E s \in Sessions :
        /\ Made(s) /\ Valid(s) /\ Exhausted(s)
        /\ Len(buffer) = sess[s].c.min_chunksize + sess[s].c.window_size
        /\ sess[s].out = <<MkSlice(base, Len(buffer))>>
        /\ sess[s].hows = <<"tail">>

\* C17: from any constructed session repeated pulls reach Exhausted: a pull
\* of a session with bytes remaining returns a chunk and strictly decreases
\* bytes_remaining, a pull with none returns None, so that after at most
\* len(buffer) chunks a pull returns None.
C17_ReachesExhausted ==
    /\ [][\A s \in Sessions : (Made(s) /\ sess'[s] # sess[s]) =>
            IF sess[s].c.bytes_remaining = 0
            THEN sess'[s].last = "None"
            ELSE /\ sess'[s].last = "Some"
                 /\ sess'[s].c.bytes_remaining < sess[s].c.bytes_remaining]_vars
    /\ [](\A s \in Sessions : Made(s) => Len(sess[s].out) <= Len(buffer))
    /\ \A s \in Sessions : Made(s) ~> Exhausted(s)

\* Supporting C17: every pull that returns a chunk strictly decreases
\* bytes_remaining, and no session returns more chunks than the buffer has
\* bytes (both builds).
PullsConsume ==
    /\ [][\A s \in Sessions : (Made(s) /\ sess'[s] # sess[s] /\ sess'[s].last = "Some") =>
            sess'[s].c.bytes_remaining < sess[s].c.bytes_remaining]_vars
    /\ [](\A s \in Sessions : Made(s) => Len(sess[s].out) <= Len(buffer))

\* Supporting C17: in a build that does not check the alignment of the
\* comparator's reads every constructed session reaches Exhausted.
ReachesExhaustedUnchecked ==
    \A s \in Sessions : (Made(s) /\ ~align_checks) ~> Exhausted(s)

\* C18: every pull ends, and makes at most max_chunksize comparator calls:
\* its calls are for the candidates min_chunksize, min_chunksize + 1, ...,
\* each below max_chunksize, so there are at most max_chunksize -
\* min_chunksize of them.
C18_BoundedCalls ==
    \A s \in Sessions : (Made(s) /\ Valid(s)) =>
        /\ sess[s].cmps = Len(sess[s].trace)
        /\ sess[s].cmps <= sess[s].c.max_chunksize
        /\ sess[s].cmps <= sess[s].c.max_chunksize - sess[s].c.min_chunksize
        /\ \A k \in 1 .. Len(sess[s].trace) :
              /\ sess[s].trace[k].i = sess[s].c.min_chunksize + k - 1
              /\ sess[s].trace[k].i < sess[s].c.max_chunksize

\* C18 witness: a pull compared every candidate from min_chunksize to
\* max_chunksize - 1 and returned at the ceiling
C18_Witness ==
    \E s \in Sessions :
        /\ ScanReturned(s) /\ sess[s].how = "ceiling"
        /\ sess[s].cmps = sess[s].c.max_chunksize - sess[s].c.min_chunksize
        /\ sess[s].rem > sess[s].c.max_chunksize + SIZEOF_U64

\* chunk k of session s is not the last chunk of the session: a chunk
\* follows it, or bytes remain
NotLast(s, k) == k < Len(sess[s].out) \/ sess[s].c.bytes_remaining > 0

\* C19: with valid parameters every chunk other than the last of its session
\* has at least min_chunksize + window_size bytes; only the last can be
\* shorter.
C19_NonFinalFloor ==
    \A s \in Sessions : (Made(s) /\ Valid(s)) =>
        \A k \in 1 .. Len(sess[s].out) :
            /\ NotLast(s, k) =>
                  sess[s].out[k].len >= sess[s].c.min_chunksize + sess[s].c.window_size
            /\ sess[s].hows[k] # "tail" =>
                  sess[s].out[k].len >= sess[s].c.min_chunksize + sess[s].c.window_size
            /\ sess[s].hows[k] = "tail" => ~NotLast(s, k)

\* C19 witness: a session returned a chunk of exactly min_chunksize +
\* window_size bytes that was not its last, and ended with a shorter one
C19_Witness ==
    \E s \in Sessions :
        /\ Made(s) /\ Valid(s) /\ Exhausted(s) /\ Len(sess[s].out) >= 2
        /\ \E k \in 1 .. (Len(sess[s].out) - 1) :
              sess[s].out[k].len = sess[s].c.min_chunksize + sess[s].c.window_size
        /\ sess[s].out[Len(sess[s].out)].len
              < sess[s].c.min_chunksize + sess[s].c.window_size

\* R' holds the same bytes as R in its first n positions
Agree(n) ==
    /\ n <= LocalLen /\ n <= Len(buffer) - LocalLen
    /\ \A j \in 1 .. n : buffer[j] = buffer[LocalLen + j]

\* chunk k of session s starts at this offset of the session's slice
ChunkOff(s, k) == sess[s].out[k].ptr - sess[s].c.slice.ptr

\* chunk k of session s was cut inside the loop, at least 9 bytes before the
\* end of what remained, and what remained of session t's slice at the same
\* offset has at least 9 bytes more than the cut and the same first cut + 8
\* bytes
LocalCut(s, t, k) ==
    /\ k <= Len(sess[s].out) /\ k <= Len(sess[t].out)
    /\ ChunkOff(s, k) = ChunkOff(t, k)
    /\ sess[s].hows[k] \in {"window", "ceiling"}
    /\ ChunkOff(s, k) + sess[s].out[k].len + SIZEOF_U64 + 1 <= sess[s].c.slice.len
    /\ ChunkOff(s, k) + sess[s].out[k].len + SIZEOF_U64 + 1 <= sess[t].c.slice.len
    /\ Agree(ChunkOff(s, k) + sess[s].out[k].len + SIZEOF_U64)

\* C20: a cut found inside the loop depends only on the bytes before it plus
\* 8: when a pull on R returns c by the ceiling or the window rule (c <=
\* len(R) - 9), a pull with the same parameters and salt on an R' of at least
\* c + 9 bytes that has the same first c + 8 bytes returns c too.
C20_CutLocality ==
    \A s, t \in Sessions :
        (s # t /\ Made(s) /\ Made(t) /\ sess[s].args = sess[t].args) =>
            \A k \in 1 .. Len(sess[s].out) :
                LocalCut(s, t, k) => sess[t].out[k].len = sess[s].out[k].len

\* the ceiling case: both pulls returned max_chunksize
CeilingCutLocal ==
    /\ Made(1) /\ Made(2) /\ sess[1].args = sess[2].args
    /\ LocalCut(1, 2, 1)
    /\ sess[1].hows[1] = "ceiling"
    /\ sess[2].out[1].len = sess[1].out[1].len

\* C20 witness: R' shares exactly c + 8 bytes with R, is shorter than R, and
\* both pulls returned the window cut c
C20_Witness ==
    /\ Made(1) /\ Made(2) /\ sess[1].args = sess[2].args
    /\ LocalCut(1, 2, 1)
    /\ sess[1].hows[1] = "window"
    /\ ~Agree(sess[1].out[1].len + SIZEOF_U64 + 1)
    /\ sess[2].c.slice.len < sess[1].c.slice.len
    /\ sess[2].out[1].len = sess[1].out[1].len

====
